---- MODULE Spec2Model ----
(***************************************************************************)
(* Model of the ledger engine of the financial voucher system:             *)
(* services/accounting_service.py (AccountingService), services/           *)
(* voucher_service.py (VoucherService), models/ledger.py,                  *)
(* models/ledger_credit_debit.py, models/ledger_subcodes.py,               *)
(* models/account_definition.py and core/database.py.                      *)
(*                                                                         *)
(* Every DatabaseManager call opens its own sqlite connection and commits  *)
(* on it, so one database call is one atomic step; a service method is a   *)
(* sequence of such steps and other callers may run between them.          *)
(*                                                                         *)
(* Money is counted in thousandths (1 = 0.001), so that amounts with three *)
(* decimals and their quantization to two decimals are both exact.         *)
(***************************************************************************)
EXTENDS Integers, Sequences, FiniteSets, TLC

VARIABLES
    acct,       \* table acct_definition, rows in id order
    ledger,     \* table ledger, rows in id order (id = position)
    lcd,        \* table ledger_credit_debit, rows in id order
    subcodes,   \* table ledger_subcodes, rows in id order
    pc,         \* position of each caller inside its service method
    args,       \* arguments of the call each caller is running
    num,        \* the number generated by the running create call
    vid,        \* the ledger id read by the running void call
    wrote,      \* which tables the running call has committed rows to
    result,     \* the tuple the call returned
    created,    \* (type, number) of the creates that returned success, in order
    faults,     \* the database operations that failed inside the running call
    report      \* the reports a caller last read, and the size of the tables then

vars == <<acct, ledger, lcd, subcodes, pc, args, num, vid, wrote, result, created,
          faults, report>>

----------------------------------------------------------------------------
(* Bounds of the model *)

NumProcs == 2       \* concurrent callers of the interleaving specification
MaxHeaders == 2     \* rows of ledger after which no further call is started
SeqMaxHeaders == 2  \* the same cap in the one-caller specification
MaxLines == 3       \* entry lines supplied to one call
MaxUnits == 3       \* supplied amounts are 0 .. MaxUnits half-cents

(* Program constants, in thousandths *)

Cent == 10          \* Decimal('0.01'), the quantization step
Tolerance == 10     \* the 0.01 of "abs(...) < 0.01"

HalfCent == Cent \div 2

Procs == 1 .. NumProcs
Years == {2025, 2026}
NoNumber == <<>>
NoArgs == [op |-> "none"]
NoResult == [ok |-> FALSE, msg |-> "none", number |-> NoNumber]
NoReport == [taken |-> FALSE]

----------------------------------------------------------------------------
(* Pure helpers *)

Abs(x) == IF x < 0 THEN -x ELSE x

\* Decimal(str(x)).quantize(Decimal('0.01'), rounding=ROUND_HALF_UP)
Quantize(m) ==
    IF m >= 0 THEN ((m + (Cent \div 2)) \div Cent) * Cent
              ELSE -((((-m) + (Cent \div 2)) \div Cent) * Cent)

RECURSIVE SumSide(_, _)
\* sum(float(line['amount']) for line in lines if line['acct_type'] == side)
SumSide(lines, side) ==
    IF lines = <<>> THEN 0
    ELSE (IF Head(lines).acct_type = side THEN Head(lines).amount ELSE 0)
         + SumSide(Tail(lines), side)

RECURSIVE SideAmounts(_, _)
\* the amounts of the lines of one side, in the order supplied
SideAmounts(lines, side) ==
    IF lines = <<>> THEN <<>>
    ELSE (IF Head(lines).acct_type = side THEN <<Head(lines).amount>> ELSE <<>>)
         \o SideAmounts(Tail(lines), side)

RECURSIVE Sum(_)
Sum(amounts) == IF amounts = <<>> THEN 0 ELSE Head(amounts) + Sum(Tail(amounts))

\* The lists of up to four amounts, each a multiple of 0.005 up to 0.02, whose
\* sum as Python adds the doubles falls just below a half-cent tie that the
\* exact sum reaches (0.03 + 0.005 gives 0.034999999999999996), so that the
\* quantized sum is one cent lower.
ShortSums ==
    {<<10, 20, 5>>, <<15, 15, 5>>, <<20, 10, 5>>, <<0, 10, 20, 5>>,
     <<0, 15, 15, 5>>, <<0, 20, 10, 5>>, <<5, 5, 20, 5>>, <<5, 10, 15, 5>>,
     <<5, 15, 10, 5>>, <<10, 0, 20, 5>>, <<10, 5, 15, 5>>, <<10, 10, 10, 5>>,
     <<10, 20, 0, 5>>, <<10, 20, 5, 0>>, <<10, 20, 5, 20>>, <<15, 0, 15, 5>>,
     <<15, 5, 10, 5>>, <<15, 15, 0, 5>>, <<15, 15, 5, 0>>, <<15, 15, 5, 20>>,
     <<20, 0, 10, 5>>, <<20, 10, 0, 5>>, <<20, 10, 5, 0>>, <<20, 10, 5, 20>>}

\* Decimal(str(sum(float(a) for a in amounts))).quantize(Decimal('0.01'), ROUND_HALF_UP)
QuantizeSum(amounts) ==
    IF amounts \in ShortSums THEN Quantize(Sum(amounts)) - Cent
    ELSE Quantize(Sum(amounts))

\* The whole cents c below 1.00 for which the double nearest (c+1)/100 minus
\* the double nearest c/100 is below the double nearest 0.01.
NearMissCents == {2, 5, 7, 8, 10, 11, 14, 17, 20, 23, 28, 34, 40, 46, 56, 68, 81, 93}

\* "abs(x - y) < 0.01" on the doubles of two amounts of whole cents: amounts
\* one cent apart pass when the subtraction of the doubles falls short of 0.01
BelowTolerance(x, y) ==
    LET lo == IF x < y THEN x ELSE y
        hi == IF x < y THEN y ELSE x
    IN  \/ hi - lo < Tolerance
        \/ hi - lo = Tolerance /\ (lo \div Cent) \in NearMissCents

\* AccountingService._validate_credit_debit_balance
ValidateCreditDebitBalance(lines, total_amount) ==
    LET total_debits  == QuantizeSum(SideAmounts(lines, "D"))
        total_credits == QuantizeSum(SideAmounts(lines, "C"))
        total         == Quantize(total_amount)
        debits_credits_balanced == BelowTolerance(total_debits, total_credits)
        amount_matches == \/ BelowTolerance(total_debits, total)
                          \/ BelowTolerance(total_credits, total)
    IN  debits_credits_balanced /\ amount_matches

\* f"1-{sequence:03d}-{year}", kept as its three dash-separated parts
FormatNumber(sequence, year) == <<"1", sequence, year>>

----------------------------------------------------------------------------
(* The tables *)

AcctCodes == {"VEND001", "5000", "2000", "1010", "NOPE"}

\* the code no account is registered under at the start
Unregistered == {"NOPE"}

\* the accounts registered at the start, in the order of their ids
FirstAccounts == <<"VEND001", "5000", "2000", "1010">>

\* the row AccountDefinition.create inserts (is_active DEFAULT 1)
AccountRow(code) == [acct_code |-> code, is_active |-> TRUE]

Init ==
    /\ acct = [k \in 1 .. Len(FirstAccounts) |-> AccountRow(FirstAccounts[k])]
    /\ ledger = <<>>
    /\ lcd = <<>>
    /\ subcodes = <<>>
    /\ pc = [p \in Procs |-> "idle"]
    /\ args = [p \in Procs |-> NoArgs]
    /\ num = [p \in Procs |-> NoNumber]
    /\ vid = [p \in Procs |-> 0]
    /\ wrote = [p \in Procs |-> {}]
    /\ result = [p \in Procs |-> NoResult]
    /\ created = <<>>
    /\ faults = [p \in Procs |-> {}]
    /\ report = NoReport

\* transaction_date.year
YearOf(date) == date[1]

\* the ledger type a service method writes
TypeOf(op) == IF op \in {"cvp", "vs_cvp"} THEN "VP" ELSE "CV"

\* some row of acct_definition carries the code
Registered(code) == \E k \in 1 .. Len(acct) : acct[k].acct_code = code

\* some row of acct_definition carries the code and has is_active = 1
Active(code) ==
    \E k \in 1 .. Len(acct) : acct[k].acct_code = code /\ acct[k].is_active

\* GetByCode without "AND is_active = 1"
GetByCodeAnyStatus(code, fail) ==
    (~fail) /\ \E k \in 1 .. Len(acct) : acct[k].acct_code = code

\* AccountDefinition.get_by_code: WHERE acct_code = ? AND is_active = 1
\* (DatabaseManager.fetch_one answers None when the read fails)
GetByCode(code, fail) ==
    (~fail) /\ \E k \in 1 .. Len(acct) : acct[k].acct_code = code /\ acct[k].is_active

\* Ledger.get_by_number: the id of the row carrying the number, 0 for None
GetByNumber(number, fail) ==
    IF fail \/ ~(\E i \in 1 .. Len(ledger) : ledger[i].number = number) THEN 0
    ELSE CHOOSE i \in 1 .. Len(ledger) : ledger[i].number = number

\* Ledger.generate_number: WHERE type = ? AND number LIKE '%-{year}', highest
\* middle part first; a failed read leaves result None and the sequence at 1
GenerateNumber(ledger_type, year, fail) ==
    LET match == {i \in 1 .. Len(ledger) :
                     ledger[i].type = ledger_type /\ ledger[i].number[3] = year}
    IN  IF fail \/ match = {} THEN FormatNumber(1, year)
        ELSE LET top == CHOOSE i \in match :
                            \A j \in match : ledger[j].number[2] <= ledger[i].number[2]
             IN  FormatNumber(ledger[top].number[2] + 1, year)

\* NumberTaken with the UNIQUE constraint left out of the table definition
NumberTakenNoConstraint(number) == FALSE

\* the UNIQUE constraint on ledger.number
NumberTaken(number) == \E i \in 1 .. Len(ledger) : ledger[i].number = number

\* the row Ledger.create inserts (status DEFAULT 'active')
HeaderRow(a, number) ==
    [type |-> TypeOf(a.op), number |-> number, date |-> a.date,
     payee_code |-> a.payee_code, total_amount |-> Quantize(a.total_amount),
     status |-> "active"]

\* the cd_entries built from the supplied lines, amounts quantized one by one
SuppliedEntries(a, number) ==
    [i \in 1 .. Len(a.lines) |->
        [type |-> TypeOf(a.op), number |-> number, date |-> a.date,
         acct_code |-> a.lines[i].acct_code,
         acct_description |-> a.lines[i].acct_description,
         amount |-> Quantize(a.lines[i].amount),
         acct_type |-> a.lines[i].acct_type]]

\* the description snapshot the default entries carry for an account code
DefaultDescription(code) ==
    IF code = "5000" THEN "General Expense"
    ELSE IF code = "2000" THEN "Accounts Payable"
    ELSE "Bank - Operating Account"

\* the default pair: VP debits 5000 and credits 2000, CV debits 2000 and
\* credits the bank account 1010
DefaultEntries(a, number) ==
    LET dr == IF a.op = "cvp" THEN "5000" ELSE "2000"
        cr == IF a.op = "cvp" THEN "2000" ELSE "1010"
        row(code, side) ==
            [type |-> TypeOf(a.op), number |-> number, date |-> a.date,
             acct_code |-> code, acct_description |-> DefaultDescription(code),
             amount |-> Quantize(a.total_amount), acct_type |-> side]
    IN  <<row(dr, "D"), row(cr, "C")>>

\* "if credit_debit_lines:" an empty list counts as not supplied
EntriesOf(a, number) ==
    IF a.lines # <<>> THEN SuppliedEntries(a, number) ELSE DefaultEntries(a, number)

\* LedgerCreditDebit.create_multiple refuses an entry whose acct_type is not D or C
EntriesValid(entries) ==
    \A i \in 1 .. Len(entries) : entries[i].acct_type \in {"D", "C"}

\* the sub_entries built from the supplied subsidiary lines
SubEntries(a, number) ==
    [i \in 1 .. Len(a.subs) |->
        [type |-> TypeOf(a.op), number |-> number, date |-> a.date,
         acct_code |-> a.subs[i].acct_code,
         subsidiary_code |-> a.subs[i].subsidiary_code,
         amount |-> Quantize(a.subs[i].amount)]]

\* a subsidiary line lacking one of the keys the service reads raises KeyError
SubsWellFormed(a) == \A i \in 1 .. Len(a.subs) : a.subs[i].keys = "all"

----------------------------------------------------------------------------
(* Steps shared by the service methods *)

\* "return ok, msg, number" of a service method
Return(p, ok, msg, number) ==
    /\ pc' = [pc EXCEPT ![p] = "done"]
    /\ result' = [result EXCEPT ![p] = [ok |-> ok, msg |-> msg, number |-> number]]
    /\ created' = IF ok /\ number # NoNumber
                  THEN Append(created, <<TypeOf(args[p].op), number>>)
                  ELSE created

\* DatabaseManager.execute_query / fetch_one / fetch_all catch the exception of
\* a failed operation and answer False / None / []: the failure is remembered
Fault(p, operation, fail) ==
    faults' = [faults EXCEPT ![p] = IF fail THEN @ \cup {operation} ELSE @]

Goto(p, label) ==
    /\ pc' = [pc EXCEPT ![p] = label]
    /\ UNCHANGED <<result, created>>

\* the caller takes the returned tuple and is free for its next call
Done(p) ==
    /\ pc[p] = "done"
    /\ pc' = [pc EXCEPT ![p] = "idle"]
    /\ args' = [args EXCEPT ![p] = NoArgs]
    /\ num' = [num EXCEPT ![p] = NoNumber]
    /\ vid' = [vid EXCEPT ![p] = 0]
    /\ wrote' = [wrote EXCEPT ![p] = {}]
    /\ result' = [result EXCEPT ![p] = NoResult]
    /\ faults' = [faults EXCEPT ![p] = {}]
    /\ UNCHANGED <<acct, ledger, lcd, subcodes, created, report>>

----------------------------------------------------------------------------
(* AccountingService.create_voucher_payable and create_check_voucher *)

IsCreate(a) == a.op \in {"cvp", "ccv"}

\* the balance check both methods make once the number is generated (and, for
\* a check voucher, once the linked voucher is looked up)
ValidateThenBegin(p) ==
    IF args[p].lines # <<>>
       /\ ~ValidateCreditDebitBalance(args[p].lines, Quantize(args[p].total_amount))
    THEN Return(p, FALSE, "unbalanced", NoNumber)
    ELSE Goto(p, "header")

\* entry of the call: self.accounts.get_by_code(payee_code)
CheckPayee(p, a, cap, fail) ==
    /\ pc[p] = "idle"
    /\ IsCreate(a)
    /\ Len(ledger) < cap
    /\ args' = [args EXCEPT ![p] = a]
    /\ IF GetByCode(a.payee_code, fail)
       THEN Goto(p, "gen")
       ELSE Return(p, FALSE, "payee_not_found", NoNumber)
    /\ Fault(p, "get_by_code", fail)
    /\ UNCHANGED <<acct, ledger, lcd, subcodes, num, vid, wrote, report>>

\* Generate that reserves the number it hands out by storing its header at
\* once
GenerateReserving(p, fail) ==
    /\ pc[p] = "gen"
    /\ num' = [num EXCEPT ![p] =
                  GenerateNumber(TypeOf(args[p].op), YearOf(args[p].date), fail)]
    /\ ledger' = Append(ledger,
                    HeaderRow(args[p], GenerateNumber(TypeOf(args[p].op),
                                                      YearOf(args[p].date), fail)))
    /\ IF args[p].op = "ccv" /\ args[p].vp_number # NoNumber
       THEN Goto(p, "link")
       ELSE ValidateThenBegin(p)
    /\ Fault(p, "generate_number", fail)
    /\ UNCHANGED <<acct, lcd, subcodes, args, vid, wrote, report>>

\* self.ledger.generate_number(type, transaction_date.year)
Generate(p, fail) ==
    /\ pc[p] = "gen"
    /\ num' = [num EXCEPT ![p] =
                  GenerateNumber(TypeOf(args[p].op), YearOf(args[p].date), fail)]
    /\ IF args[p].op = "ccv" /\ args[p].vp_number # NoNumber
       THEN Goto(p, "link")
       ELSE ValidateThenBegin(p)
    /\ Fault(p, "generate_number", fail)
    /\ UNCHANGED <<acct, ledger, lcd, subcodes, args, vid, wrote, report>>

\* create_check_voucher: "if vp_number:" self.ledger.get_by_number(vp_number)
Link(p, fail) ==
    /\ pc[p] = "link"
    /\ LET vp_entry == GetByNumber(args[p].vp_number, fail)
       IN  IF vp_entry = 0
           THEN Return(p, FALSE, "vp_not_found", NoNumber)
           ELSE IF ledger[vp_entry].type # "VP"
                THEN Return(p, FALSE, "not_a_vp", NoNumber)
                ELSE ValidateThenBegin(p)
    /\ Fault(p, "get_by_number", fail)
    /\ UNCHANGED <<acct, ledger, lcd, subcodes, args, num, vid, wrote, report>>

\* InsertHeader without "if not ledger_id: ... return": the call goes on to
\* its entry lines although its INSERT was refused
InsertHeaderUnchecked(p, fail) ==
    /\ pc[p] = "header"
    /\ IF fail \/ NumberTaken(num[p])
       THEN /\ Goto(p, "lines")
            /\ UNCHANGED <<ledger, wrote>>
       ELSE /\ ledger' = Append(ledger, HeaderRow(args[p], num[p]))
            /\ wrote' = [wrote EXCEPT ![p] = @ \cup {"header"}]
            /\ Goto(p, "lines")
    /\ Fault(p, "create", fail)
    /\ UNCHANGED <<acct, lcd, subcodes, args, num, vid, report>>

\* self.ledger.create(..., number=number): INSERT and commit on a connection
\* of its own; None when the INSERT raises (UNIQUE number, storage failure)
InsertHeader(p, fail) ==
    /\ pc[p] = "header"
    /\ IF fail \/ NumberTaken(num[p])
       THEN /\ Return(p, FALSE, "header_failed", NoNumber)
            /\ UNCHANGED <<ledger, wrote>>
       ELSE /\ ledger' = Append(ledger, HeaderRow(args[p], num[p]))
            /\ wrote' = [wrote EXCEPT ![p] = @ \cup {"header"}]
            /\ Goto(p, "lines")
    /\ Fault(p, "create", fail)
    /\ UNCHANGED <<acct, lcd, subcodes, args, num, vid, report>>

\* self.credit_debit.create_multiple(entries): all INSERTs on one connection,
\* committed together or not at all; the service's conn.rollback() acts on a
\* connection that wrote nothing.  Without subsidiary lines the method then
\* reaches conn.commit() and the audit call.
InsertLines(p, fail) ==
    /\ pc[p] = "lines"
    /\ LET entries == EntriesOf(args[p], num[p])
       IN  IF fail \/ ~EntriesValid(entries)
           THEN /\ Return(p, FALSE, "lines_failed", NoNumber)
                /\ UNCHANGED <<lcd, wrote>>
           ELSE /\ lcd' = lcd \o entries
                /\ wrote' = [wrote EXCEPT ![p] = @ \cup {"lines"}]
                /\ IF args[p].subs # <<>>
                   THEN Goto(p, "subs")
                   ELSE Goto(p, "audit")
    /\ Fault(p, "create_multiple", fail /\ EntriesValid(EntriesOf(args[p], num[p])))
    /\ UNCHANGED <<acct, ledger, subcodes, args, num, vid, report>>

\* InsertSubs outside the method's "except Exception": the KeyError of a
\* malformed line leaves the method and no tuple is returned
InsertSubsRaising(p, fail) ==
    /\ pc[p] = "subs"
    /\ IF ~SubsWellFormed(args[p])
       THEN /\ pc' = [pc EXCEPT ![p] = "raised"]
            /\ UNCHANGED <<result, created, subcodes, wrote>>
       ELSE IF fail
            THEN /\ Return(p, FALSE, "subs_failed", NoNumber)
                 /\ UNCHANGED <<subcodes, wrote>>
            ELSE /\ subcodes' = subcodes \o SubEntries(args[p], num[p])
                 /\ wrote' = [wrote EXCEPT ![p] = @ \cup {"subs"}]
                 /\ Goto(p, "audit")
    /\ Fault(p, "subcodes_create_multiple", fail /\ SubsWellFormed(args[p]))
    /\ UNCHANGED <<acct, ledger, lcd, args, num, vid, report>>

\* building sub_entries (KeyError on a malformed line), then
\* self.subcodes.create_multiple(sub_entries), then conn.commit() and the
\* audit call
InsertSubs(p, fail) ==
    /\ pc[p] = "subs"
    /\ IF ~SubsWellFormed(args[p])
       THEN /\ Return(p, FALSE, "error", NoNumber)
            /\ UNCHANGED <<subcodes, wrote>>
       ELSE IF fail
            THEN /\ Return(p, FALSE, "subs_failed", NoNumber)
                 /\ UNCHANGED <<subcodes, wrote>>
            ELSE /\ subcodes' = subcodes \o SubEntries(args[p], num[p])
                 /\ wrote' = [wrote EXCEPT ![p] = @ \cup {"subs"}]
                 /\ Goto(p, "audit")
    /\ Fault(p, "subcodes_create_multiple", fail /\ SubsWellFormed(args[p]))
    /\ UNCHANGED <<acct, ledger, lcd, args, num, vid, report>>

----------------------------------------------------------------------------
(* AccountingService.void_transaction *)

\* VoidRead without 'if transaction['ledger']['status'] == 'void''
VoidReadAnyStatus(p, a, fail) ==
    /\ pc[p] = "idle"
    /\ a.op = "void"
    /\ args' = [args EXCEPT ![p] = a]
    /\ LET id == GetByNumber(a.number, fail)
       IN  IF id = 0
           THEN Return(p, FALSE, "not_found", NoNumber) /\ vid' = vid
           ELSE Goto(p, "void") /\ vid' = [vid EXCEPT ![p] = id]
    /\ Fault(p, "get_transaction", fail)
    /\ UNCHANGED <<acct, ledger, lcd, subcodes, num, wrote, report>>

\* self.get_transaction(number) and the two checks on what it read
VoidRead(p, a, fail) ==
    /\ pc[p] = "idle"
    /\ a.op = "void"
    /\ args' = [args EXCEPT ![p] = a]
    /\ LET id == GetByNumber(a.number, fail)
       IN  IF id = 0
           THEN Return(p, FALSE, "not_found", NoNumber) /\ vid' = vid
           ELSE IF ledger[id].status = "void"
                THEN Return(p, FALSE, "already_voided", NoNumber) /\ vid' = vid
                ELSE Goto(p, "void") /\ vid' = [vid EXCEPT ![p] = id]
    /\ Fault(p, "get_transaction", fail)
    /\ UNCHANGED <<acct, ledger, lcd, subcodes, num, wrote, report>>

\* VoidWrite that also deletes the rows filed under the number, as
\* Ledger.delete does
VoidWriteDeleting(p, fail) ==
    /\ pc[p] = "void"
    /\ IF fail
       THEN Return(p, FALSE, "void_failed", NoNumber) /\ UNCHANGED <<ledger, lcd, subcodes>>
       ELSE /\ ledger' = [ledger EXCEPT ![vid[p]].status = "void"]
            /\ lcd' = SelectSeq(lcd, LAMBDA r : r.number # ledger[vid[p]].number)
            /\ subcodes' = SelectSeq(subcodes, LAMBDA r : r.number # ledger[vid[p]].number)
            /\ Goto(p, "audit")
    /\ Fault(p, "void", fail)
    /\ UNCHANGED <<acct, args, num, vid, wrote, report>>

\* self.ledger.void(ledger_entry['id']): UPDATE ledger SET status = 'void' WHERE id = ?
VoidWrite(p, fail) ==
    /\ pc[p] = "void"
    /\ IF fail
       THEN Return(p, FALSE, "void_failed", NoNumber) /\ ledger' = ledger
       ELSE /\ ledger' = [ledger EXCEPT ![vid[p]].status = "void"]
            /\ Goto(p, "audit")
    /\ Fault(p, "void", fail)
    /\ UNCHANGED <<acct, lcd, subcodes, args, num, vid, wrote, report>>

----------------------------------------------------------------------------
(* AuditService.log_action, called once the rows of the call are committed *)

\* Audit with the failure of log_action raised to the service method, whose
\* "except Exception" turns it into a failure of the call
AuditPropagating(p, fail) ==
    /\ pc[p] = "audit"
    /\ IF fail
       THEN Return(p, FALSE, "error", NoNumber)
       ELSE IF args[p].op = "void"
            THEN Return(p, TRUE, "voided", NoNumber)
            ELSE Return(p, TRUE, "created", num[p])
    /\ Fault(p, "log_action", fail)
    /\ UNCHANGED <<acct, ledger, lcd, subcodes, args, num, vid, wrote, report>>

\* self.audit.log_action(...): INSERT INTO system_logs on a connection of its
\* own; log_action answers False when the INSERT fails and the service method
\* does not look at the answer.  Then "return True, ..."
Audit(p, fail) ==
    /\ pc[p] = "audit"
    /\ IF args[p].op = "void"
       THEN Return(p, TRUE, "voided", NoNumber)
       ELSE Return(p, TRUE, "created", num[p])
    /\ Fault(p, "log_action", fail)
    /\ UNCHANGED <<acct, ledger, lcd, subcodes, args, num, vid, wrote, report>>

----------------------------------------------------------------------------
(* AccountDefinition.create *)

\* CodeHeld with the constraint looking at active rows only
CodeHeldAmongActive(code) ==
    \E k \in 1 .. Len(acct) : acct[k].acct_code = code /\ acct[k].is_active

\* "acct_code VARCHAR(50) UNIQUE NOT NULL": the INSERT raises when any row,
\* active or not, carries the code
CodeHeld(code) == \E k \in 1 .. Len(acct) : acct[k].acct_code = code

\* INSERT INTO acct_definition and commit; None when the INSERT raises (the
\* code is held, storage failure), the new id otherwise
AcctCreate(p, code, fail) ==
    /\ pc[p] = "idle"
    /\ args' = [args EXCEPT ![p] = [op |-> "acct_create", acct_code |-> code]]
    /\ IF fail \/ CodeHeld(code)
       THEN Return(p, FALSE, "account_failed", NoNumber) /\ acct' = acct
       ELSE /\ acct' = Append(acct, AccountRow(code))
            /\ Return(p, TRUE, "account_created", NoNumber)
    /\ Fault(p, "acct_create", fail)
    /\ UNCHANGED <<ledger, lcd, subcodes, num, vid, wrote, report>>

----------------------------------------------------------------------------
(* AccountDefinition.soft_delete_by_code *)

\* UPDATE acct_definition SET is_active = 0 WHERE acct_code = ?
SoftDeleteByCode(code) ==
    /\ \E k \in 1 .. Len(acct) : acct[k].acct_code = code /\ acct[k].is_active
    /\ acct' = [k \in 1 .. Len(acct) |->
                   IF acct[k].acct_code = code
                   THEN [acct[k] EXCEPT !.is_active = FALSE]
                   ELSE acct[k]]
    /\ UNCHANGED <<ledger, lcd, subcodes, pc, args, num, vid, wrote, result, created, faults, report>>

----------------------------------------------------------------------------
(* VoucherService.create_check_voucher *)

\* position of a number's first part in the text order of ORDER BY number
PrefixRank(prefix) == IF prefix = "1" THEN 0 ELSE IF prefix = "CV" THEN 1 ELSE 2

\* n sorts before or with m as text (sequences are zero-padded to three
\* digits and years have four)
TextLeq(n, m) ==
    \/ PrefixRank(n[1]) < PrefixRank(m[1])
    \/ /\ n[1] = m[1]
       /\ \/ n[2] < m[2]
          \/ n[2] = m[2] /\ n[3] <= m[3]

\* VoucherService._generate_voucher_number: WHERE type = ? AND
\* strftime('%Y', date) = ?, ORDER BY number DESC LIMIT 1; the sequence is
\* taken from the third part only when the second part is the year
VsGenerateNumber(voucher_type, year, fail) ==
    LET match == {i \in 1 .. Len(ledger) :
                     ledger[i].type = voucher_type /\ YearOf(ledger[i].date) = year}
    IN  IF fail \/ match = {} THEN <<voucher_type, year, 1>>
        ELSE LET top == CHOOSE i \in match :
                            \A j \in match : TextLeq(ledger[j].number, ledger[i].number)
             IN  IF ledger[top].number[2] = year
                 THEN <<voucher_type, year, ledger[top].number[3] + 1>>
                 ELSE <<voucher_type, year, 1>>

\* "if not all([payee_code, payee, amount])" and the start of the write
VsRequireThenWrite(p, a) ==
    IF a.payee_code = "" \/ a.total_amount = 0
    THEN Return(p, FALSE, "required", NoNumber)
    ELSE Goto(p, "vs_write")

\* entry of the call: self._generate_voucher_number('CV')
VsGenerate(p, a, cap, fail) ==
    /\ pc[p] = "idle"
    /\ a.op = "vs_ccv"
    /\ Len(ledger) < cap
    /\ args' = [args EXCEPT ![p] = a]
    /\ num' = [num EXCEPT ![p] = VsGenerateNumber("CV", YearOf(a.date), fail)]
    /\ IF a.vp_number # NoNumber
       THEN Goto(p, "vs_get")
       ELSE VsRequireThenWrite(p, a)
    /\ Fault(p, "generate_number", fail)
    /\ UNCHANGED <<acct, ledger, lcd, subcodes, vid, wrote, report>>

\* "if vp_number:" self.get_voucher_by_number(vp_number); the payee is taken
\* from the row read, and the amount too when none was given
VsGet(p, fail) ==
    /\ pc[p] = "vs_get"
    /\ LET vp_details == GetByNumber(args[p].vp_number, fail)
       IN  IF vp_details = 0
           THEN Return(p, FALSE, "vp_not_found", NoNumber) /\ args' = args
           ELSE LET a == [args[p] EXCEPT
                            !.payee_code = ledger[vp_details].payee_code,
                            !.total_amount = IF args[p].total_amount = 0
                                             THEN ledger[vp_details].total_amount
                                             ELSE args[p].total_amount]
                IN  /\ args' = [args EXCEPT ![p] = a]
                    /\ VsRequireThenWrite(p, a)
    /\ Fault(p, "get_by_number", fail)
    /\ UNCHANGED <<acct, ledger, lcd, subcodes, num, vid, wrote, report>>

\* the rows the method inserts: the header, a debit of the payee's account
\* and a credit of the bank account, amounts as given (float(amount))
VsHeaderRow(a, number) ==
    [type |-> "CV", number |-> number, date |-> a.date,
     payee_code |-> a.payee_code, total_amount |-> a.total_amount,
     status |-> "active"]

\* (the debit line carries the payee's name, written here as its code)
VsEntries(a, number) ==
    LET row(code, description, side) ==
            [type |-> "CV", number |-> number, date |-> a.date,
             acct_code |-> code, acct_description |-> description,
             amount |-> a.total_amount, acct_type |-> side]
    IN  <<row(a.payee_code, a.payee_code, "D"),
          row("1010", "Bank Payment - Check", "C")>>

\* UPDATE ledger SET status = 'paid' WHERE number = ?
MarkPaid(rows, vp_number) ==
    [i \in 1 .. Len(rows) |->
        IF rows[i].number = vp_number THEN [rows[i] EXCEPT !.status = "paid"]
        ELSE rows[i]]

\* one connection: INSERT header, INSERT two lines, UPDATE the VP, commit; an
\* exception (UNIQUE number, storage failure) closes it with nothing committed
VsWrite(p, fail) ==
    /\ pc[p] = "vs_write"
    /\ IF fail \/ NumberTaken(num[p])
       THEN /\ Return(p, FALSE, "error", NoNumber)
            /\ UNCHANGED <<ledger, lcd, wrote>>
       ELSE /\ ledger' = LET rows == Append(ledger, VsHeaderRow(args[p], num[p]))
                          IN  IF args[p].vp_number # NoNumber
                              THEN MarkPaid(rows, args[p].vp_number)
                              ELSE rows
            /\ lcd' = lcd \o VsEntries(args[p], num[p])
            /\ wrote' = [wrote EXCEPT ![p] = {"header", "lines"}]
            /\ Return(p, TRUE, "created", num[p])
    /\ Fault(p, "create", fail)
    /\ UNCHANGED <<acct, subcodes, args, num, vid, report>>

----------------------------------------------------------------------------
(* The inputs callers draw from *)

Line(code, side, amount) ==
    [acct_code |-> code, acct_description |-> code, amount |-> amount,
     acct_type |-> side]

Sub(code, sub_code, amount, keys) ==
    [acct_code |-> code, subsidiary_code |-> sub_code, amount |-> amount,
     keys |-> keys]

Dates == {<<y, 1>> : y \in Years}

\* the numbers a caller names: the first two of each year
Numbers == {FormatNumber(q, y) : q \in 1 .. 2, y \in Years}

CreateArgs(dates, payees, totals, linesets, subsets, links) ==
    [op : {"cvp"}, date : dates, payee_code : payees, total_amount : totals,
     lines : linesets, subs : subsets, vp_number : {NoNumber}]
    \cup
    [op : {"ccv"}, date : dates, payee_code : payees, total_amount : totals,
     lines : linesets, subs : subsets, vp_number : links]

VoidArgs(numbers) == [op : {"void"}, number : numbers]

VsArgs(dates, payees, totals, links) ==
    [op : {"vs_ccv"}, date : dates, payee_code : payees, total_amount : totals,
     vp_number : links]

\* no lines (the default pair), and a balanced pair followed by a line on no
\* side, which passes the balance check and is refused by create_multiple
FewLines ==
    {<<>>,
     <<Line("5000", "D", Cent), Line("2000", "C", Cent), Line("1300", "X", Cent)>>}

\* none, a well-formed subsidiary line, and one lacking a key
FewSubs ==
    {<<>>,
     <<Sub("5000", "S1", Cent, "all")>>,
     <<Sub("5000", "S1", Cent, "missing")>>}

----------------------------------------------------------------------------
(* Spec: NumProcs callers of AccountingService running concurrently *)

\* two debits of half a cent against one credit of half a cent
DriftLines ==
    <<Line("5000", "D", HalfCent), Line("5000", "D", HalfCent),
      Line("2000", "C", HalfCent)>>

ConcArgs ==
    CreateArgs({<<2025, 1>>}, {"VEND001"}, {Cent}, FewLines,
               {<<>>, <<Sub("5000", "S1", Cent, "all")>>},
               {NoNumber, FormatNumber(1, 2025)})
    \cup {a \in CreateArgs({<<2025, 1>>}, {"VEND001"}, {Cent}, {DriftLines},
                            {<<>>}, {NoNumber}) : a.op = "cvp"}
    \cup VoidArgs({FormatNumber(1, 2025)})

Next ==
    \/ \E p \in Procs : pc[p] = "idle" /\ \E a \in ConcArgs, fail \in BOOLEAN :
            CheckPayee(p, a, MaxHeaders, fail)
    \/ \E p \in Procs, fail \in BOOLEAN : Generate(p, fail)
    \/ \E p \in Procs, fail \in BOOLEAN : Link(p, fail)
    \/ \E p \in Procs, fail \in BOOLEAN : InsertHeader(p, fail)
    \/ \E p \in Procs, fail \in BOOLEAN : InsertLines(p, fail)
    \/ \E p \in Procs, fail \in BOOLEAN : InsertSubs(p, fail)
    \/ \E p \in Procs : pc[p] = "idle" /\ \E a \in ConcArgs, fail \in BOOLEAN :
            VoidRead(p, a, fail)
    \/ \E p \in Procs, fail \in BOOLEAN : VoidWrite(p, fail)
    \/ \E p \in Procs, fail \in BOOLEAN : Audit(p, fail)
    \/ \E p \in Procs : Done(p)

Spec == Init /\ [][Next]_vars

----------------------------------------------------------------------------
(* SeqSpec: one caller, any history of calls of both services *)

SeqArgs ==
    CreateArgs(Dates, {"VEND001", "NOPE"}, {Cent}, FewLines, FewSubs,
               {NoNumber, FormatNumber(1, 2025), FormatNumber(1, 2026)})
    \cup VoidArgs(Numbers)
    \cup VsArgs(Dates, {"VEND001"}, {0, Cent},
                {NoNumber, FormatNumber(1, 2025), FormatNumber(1, 2026)})

SeqNext ==
    \/ pc[1] = "idle" /\ \E a \in SeqArgs, fail \in BOOLEAN :
            CheckPayee(1, a, SeqMaxHeaders, fail)
    \/ \E fail \in BOOLEAN : Generate(1, fail)
    \/ \E fail \in BOOLEAN : Link(1, fail)
    \/ \E fail \in BOOLEAN : InsertHeader(1, fail)
    \/ \E fail \in BOOLEAN : InsertLines(1, fail)
    \/ \E fail \in BOOLEAN : InsertSubs(1, fail)
    \/ pc[1] = "idle" /\ \E a \in SeqArgs, fail \in BOOLEAN : VoidRead(1, a, fail)
    \/ \E fail \in BOOLEAN : VoidWrite(1, fail)
    \/ \E fail \in BOOLEAN : Audit(1, fail)
    \/ pc[1] = "idle" /\ \E a \in SeqArgs, fail \in BOOLEAN :
            VsGenerate(1, a, SeqMaxHeaders, fail)
    \/ \E fail \in BOOLEAN : VsGet(1, fail)
    \/ \E fail \in BOOLEAN : VsWrite(1, fail)
    \/ pc[1] = "idle" /\ SoftDeleteByCode("VEND001")
    \/ \E code \in {"VEND001", "NOPE"}, fail \in BOOLEAN : AcctCreate(1, code, fail)
    \/ Done(1)

SeqSpec == Init /\ [][SeqNext]_vars

----------------------------------------------------------------------------
(* BalSpec: one caller; after a first voucher payable of 2025 is recorded,  *)
(* create calls dated 2026 with every list of up to MaxLines entry lines    *)
(* whose amounts are whole numbers of half-cents                            *)

Amounts == {k * HalfCent : k \in 0 .. MaxUnits}

SeqsUpTo(S, n) == UNION {[1 .. k -> S] : k \in 0 .. n}

BalLineTypes == {Line("5000", side, m) : side \in {"D", "C"}, m \in Amounts}

\* no subsidiary line, or one filed under account 5000 for one or three cents
BalSubs == {<<>>} \cup {<<Sub("5000", "S1", m, "all")>> : m \in {Cent, 3 * Cent}}

SeedArgs ==
    CreateArgs({<<2025, 1>>}, {"VEND001"}, {Cent}, {<<>>}, {<<>>}, {NoNumber})

BalArgs ==
    IF ledger = <<>> THEN {a \in SeedArgs : a.op = "cvp"}
    ELSE CreateArgs({<<2026, 1>>}, {"VEND001", "NOPE"}, Amounts,
                    SeqsUpTo(BalLineTypes, MaxLines), BalSubs,
                    {NoNumber, FormatNumber(1, 2025)})

BalNext ==
    \/ pc[1] = "idle" /\ \E a \in BalArgs, fail \in BOOLEAN : CheckPayee(1, a, MaxHeaders, fail)
    \/ \E fail \in BOOLEAN : Generate(1, fail)
    \/ \E fail \in BOOLEAN : Link(1, fail)
    \/ \E fail \in BOOLEAN : InsertHeader(1, fail)
    \/ \E fail \in BOOLEAN : InsertLines(1, fail)
    \/ \E fail \in BOOLEAN : InsertSubs(1, fail)
    \/ \E fail \in BOOLEAN : Audit(1, fail)
    \/ Done(1)

BalSpec == Init /\ [][BalNext]_vars

----------------------------------------------------------------------------
(* What a reader finds under a number *)

RECURSIVE Under(_, _)
\* SELECT * FROM <table> WHERE number = ?, in id order
Under(rows, number) ==
    IF rows = <<>> THEN <<>>
    ELSE (IF Head(rows).number = number THEN <<Head(rows)>> ELSE <<>>)
         \o Under(Tail(rows), number)

\* rows in the order of ORDER BY key, rows of equal key in id order
Ordered(rows, key) ==
    LET n == Len(rows)
        pos(i) == Cardinality({j \in 1 .. n :
                                  key[j] < key[i] \/ (key[j] = key[i] /\ j < i)}) + 1
    IN  [k \in 1 .. n |-> rows[CHOOSE i \in 1 .. n : pos(i) = k]]

\* the account codes in text order
CodeOrder == <<"1010", "1300", "2000", "5000", "NOPE", "VEND001">>

CodeRank(code) == CHOOSE k \in 1 .. Len(CodeOrder) : CodeOrder[k] = code

\* 'C' sorts before 'D'
SideRank(side) == IF side = "C" THEN 0 ELSE Len(CodeOrder)

\* CdGetByNumber without "WHERE number = ?"
CdGetAll(number) ==
    Ordered(lcd, [i \in 1 .. Len(lcd) |->
                     SideRank(lcd[i].acct_type) + CodeRank(lcd[i].acct_code)])

\* LedgerCreditDebit.get_by_number: WHERE number = ? ORDER BY acct_type, acct_code
CdGetByNumber(number) ==
    LET rows == Under(lcd, number)
    IN  Ordered(rows, [i \in 1 .. Len(rows) |->
                          SideRank(rows[i].acct_type) + CodeRank(rows[i].acct_code)])

\* LedgerSubcodes.get_by_number: WHERE number = ? ORDER BY acct_code,
\* subsidiary_code (callers here name one subsidiary code)
SubGetByNumber(number) ==
    LET rows == Under(subcodes, number)
    IN  Ordered(rows, [i \in 1 .. Len(rows) |-> CodeRank(rows[i].acct_code)])

\* LedgerCreditDebit.validate_entry_balance: the two SUMs over the lines of
\* the number, compared as doubles; the all-zero answer when the read fails
ValidateEntryBalance(number, fail) ==
    LET total_debits  == SumSide(Under(lcd, number), "D")
        total_credits == SumSide(Under(lcd, number), "C")
    IN  IF fail
        THEN [balanced |-> FALSE, total_debits |-> 0, total_credits |-> 0,
              difference |-> 0]
        ELSE [balanced |-> BelowTolerance(total_debits, total_credits),
              total_debits |-> total_debits, total_credits |-> total_credits,
              difference |-> Abs(total_debits - total_credits)]

\* the answer of get_transaction for a number no header carries
None == [found |-> FALSE]

\* AccountingService.get_transaction: four reads; failed names those whose
\* read fails (fetch_one answers None, fetch_all answers [])
GetTransaction(number, failed) ==
    LET id == GetByNumber(number, "ledger" \in failed)
    IN  IF id = 0 THEN None
        ELSE [found |-> TRUE,
              ledger |-> ledger[id],
              credit_debit_entries |->
                  IF "lines" \in failed THEN <<>> ELSE CdGetByNumber(number),
              subsidiary_entries |->
                  IF "subs" \in failed THEN <<>> ELSE SubGetByNumber(number),
              balance_check |-> ValidateEntryBalance(number, "balance" \in failed)]

\* as_of_date omitted
NoDate == <<>>

\* date <= as_of_date
DateLeq(date, as_of_date) ==
    \/ date[1] < as_of_date[1]
    \/ date[1] = as_of_date[1] /\ date[2] <= as_of_date[2]

\* the description snapshots in text order
DescOrder ==
    <<"1010", "1300", "2000", "5000", "Accounts Payable", "Bank - Operating Account",
      "Bank Payment - Check", "General Expense", "NOPE", "VEND001">>

DescRank(description) == CHOOSE k \in 1 .. Len(DescOrder) : DescOrder[k] = description

\* the rows of one group of the trial balance query
GroupRows(rows, group) ==
    SelectSeq(rows, LAMBDA r : r.acct_code = group[1] /\ r.acct_description = group[2])

\* LedgerCreditDebit.get_trial_balance: WHERE date <= ? (when given), GROUP BY
\* acct_code, acct_description, HAVING a nonzero total, ORDER BY acct_code;
\* [] when the read fails
LcdGetTrialBalance(as_of_date, fail) ==
    LET rows == IF fail THEN <<>>
                ELSE SelectSeq(lcd, LAMBDA r : as_of_date = NoDate \/ DateLeq(r.date, as_of_date))
        groups == {g \in {<<rows[i].acct_code, rows[i].acct_description>> :
                              i \in 1 .. Len(rows)} :
                      \/ SumSide(GroupRows(rows, g), "D") # 0
                      \/ SumSide(GroupRows(rows, g), "C") # 0}
        key(g) == CodeRank(g[1]) * (Len(DescOrder) + 1) + DescRank(g[2])
    IN  [k \in 1 .. Cardinality(groups) |->
            LET g == CHOOSE g \in groups :
                         Cardinality({h \in groups : key(h) < key(g)}) = k - 1
            IN  [acct_code |-> g[1], acct_description |-> g[2],
                 total_debits |-> SumSide(GroupRows(rows, g), "D"),
                 total_credits |-> SumSide(GroupRows(rows, g), "C"),
                 balance |-> SumSide(GroupRows(rows, g), "D")
                             - SumSide(GroupRows(rows, g), "C")]]

\* number sorts strictly before other as text
TextLess(number, other) == TextLeq(number, other) /\ number # other

\* row sorts before other under ORDER BY date, number
DateNumberLess(row, other) ==
    \/ DateLeq(row.date, other.date) /\ row.date # other.date
    \/ row.date = other.date /\ TextLess(row.number, other.number)

\* LedgerCreditDebit.get_by_account: JOIN ledger ON number, WHERE acct_code = ?
\* [AND date >= ?] [AND date <= ?], ORDER BY date DESC, number DESC; [] when
\* the read fails
GetByAccount(acct_code, start_date, end_date, fail) ==
    LET rows == SelectSeq(lcd, LAMBDA r :
                    /\ r.acct_code = acct_code
                    /\ \E h \in 1 .. Len(ledger) : ledger[h].number = r.number
                    /\ start_date = NoDate \/ DateLeq(start_date, r.date)
                    /\ end_date = NoDate \/ DateLeq(r.date, end_date))
        later(i) == {j \in 1 .. Len(rows) : DateNumberLess(rows[i], rows[j])}
    IN  IF fail THEN <<>>
        ELSE Ordered(rows, [i \in 1 .. Len(rows) |-> Cardinality(later(i))])

\* GetAccountBalance joined to ledger "AND l.status != 'void'": the lines of
\* voided transactions are left out of the sums
GetAccountBalanceSkippingVoid(acct_code, as_of_date, fail) ==
    LET rows == SelectSeq(lcd, LAMBDA r :
                    /\ r.acct_code = acct_code
                    /\ as_of_date = NoDate \/ DateLeq(r.date, as_of_date)
                    /\ \E h \in 1 .. Len(ledger) :
                          ledger[h].number = r.number /\ ledger[h].status # "void")
        total_debits  == IF fail THEN 0 ELSE SumSide(rows, "D")
        total_credits == IF fail THEN 0 ELSE SumSide(rows, "C")
    IN  [acct_code |-> acct_code, total_debits |-> total_debits,
         total_credits |-> total_credits, balance |-> total_debits - total_credits]

\* LedgerCreditDebit.get_account_balance: the sums of both sides of the
\* account's lines dated up to as_of_date, zeros when the read fails
GetAccountBalance(acct_code, as_of_date, fail) ==
    LET rows == SelectSeq(lcd, LAMBDA r :
                    /\ r.acct_code = acct_code
                    /\ as_of_date = NoDate \/ DateLeq(r.date, as_of_date))
        total_debits  == IF fail THEN 0 ELSE SumSide(rows, "D")
        total_credits == IF fail THEN 0 ELSE SumSide(rows, "C")
    IN  [acct_code |-> acct_code, total_debits |-> total_debits,
         total_credits |-> total_credits, balance |-> total_debits - total_credits]

RECURSIVE SumAmounts(_)
\* SELECT SUM(amount) over the rows, 0 for none
SumAmounts(rows) ==
    IF rows = <<>> THEN 0 ELSE Head(rows).amount + SumAmounts(Tail(rows))

\* LedgerSubcodes.validate_subsidiary_total: the amounts of the entry lines
\* and of the subsidiary lines filed under (number, acct_code), either total 0
\* when its read fails; balanced is "abs(cd_total - sub_total) < 0.01"
ValidateSubsidiaryTotal(number, acct_code, failed) ==
    LET here(rows) == SelectSeq(rows, LAMBDA r :
                          r.number = number /\ r.acct_code = acct_code)
        cd_total  == IF "lines" \in failed THEN 0 ELSE SumAmounts(here(lcd))
        sub_total == IF "subs" \in failed THEN 0 ELSE SumAmounts(here(subcodes))
    IN  [balanced |-> BelowTolerance(cd_total, sub_total),
         credit_debit_total |-> cd_total, subsidiary_total |-> sub_total,
         difference |-> Abs(cd_total - sub_total)]

\* +amount for a 'D' line, -amount for any other
Signed(row) == IF row.acct_type = "D" THEN row.amount ELSE 0 - row.amount

RECURSIVE RunningBalance(_, _)
\* running_balance after the first k of the rows, in the order returned
RunningBalance(rows, k) ==
    IF k = 0 THEN 0 ELSE RunningBalance(rows, k - 1) + Signed(rows[k])

\* AccountingService.get_account_ledger (include_balance = True); failed
\* names the reads that fail, of "account", "lines" and "balance"
GetAccountLedger(acct_code, start_date, end_date, failed) ==
    IF ~GetByCode(acct_code, "account" \in failed) THEN [error |-> TRUE]
    ELSE LET rows == GetByAccount(acct_code, start_date, end_date, "lines" \in failed)
         IN  [error |-> FALSE,
              transactions |->
                  [k \in 1 .. Len(rows) |->
                      [acct_type |-> rows[k].acct_type, amount |-> rows[k].amount,
                       date |-> rows[k].date, number |-> rows[k].number,
                       running_balance |-> RunningBalance(rows, k)]],
              balance |-> GetAccountBalance(acct_code, end_date, "balance" \in failed)]

RECURSIVE SumField(_, _)
\* sum(entry[field] for entry in trial_balance)
SumField(rows, field) ==
    IF rows = <<>> THEN 0 ELSE Head(rows)[field] + SumField(Tail(rows), field)

\* AccountingService.get_trial_balance
GetTrialBalance(as_of_date, fail) ==
    LET trial_balance == LcdGetTrialBalance(as_of_date, fail)
        total_debits  == SumField(trial_balance, "total_debits")
        total_credits == SumField(trial_balance, "total_credits")
    IN  [trial_balance |-> trial_balance,
         totals |-> [total_debits |-> total_debits,
                     total_credits |-> total_credits,
                     difference |-> Abs(total_debits - total_credits),
                     balanced |-> BelowTolerance(total_debits, total_credits)]]

\* A caller reads get_trial_balance for every as_of_date and
\* get_account_ledger for every account and end date, and keeps what it read
\* together with the accounts and the number of headers and entry lines
\* stored at that moment
ReadReports(p) ==
    /\ pc[p] = "idle"
    /\ report' = [taken |-> TRUE, accounts |-> acct,
                  headers |-> Len(ledger), lines |-> Len(lcd),
                  voided |-> {h \in 1 .. Len(ledger) : ledger[h].status = "void"},
                  trial_balance |->
                      [d \in Dates \cup {NoDate} |-> GetTrialBalance(d, FALSE)],
                  account_ledger |->
                      [x \in AcctCodes \X (Dates \cup {NoDate}) |->
                          GetAccountLedger(x[1], NoDate, x[2], {})]]
    /\ UNCHANGED <<acct, ledger, lcd, subcodes, pc, args, num, vid, wrote, result,
                   created, faults>>

----------------------------------------------------------------------------
(* VoidSpec: one caller creating vouchers with the default entry lines,     *)
(* voiding them, and reading the reports in between                         *)

VoidSpecArgs ==
    CreateArgs(Dates, {"VEND001"}, {Cent, 2 * Cent}, {<<>>}, {<<>>}, {NoNumber})
    \cup VoidArgs(Numbers)

VoidNext ==
    \/ pc[1] = "idle" /\ \E a \in VoidSpecArgs, fail \in BOOLEAN :
            CheckPayee(1, a, SeqMaxHeaders, fail)
    \/ \E fail \in BOOLEAN : Generate(1, fail)
    \/ \E fail \in BOOLEAN : InsertHeader(1, fail)
    \/ \E fail \in BOOLEAN : InsertLines(1, fail)
    \/ pc[1] = "idle" /\ \E a \in VoidSpecArgs, fail \in BOOLEAN : VoidRead(1, a, fail)
    \/ \E fail \in BOOLEAN : VoidWrite(1, fail)
    \/ \E fail \in BOOLEAN : Audit(1, fail)
    \/ ReadReports(1)
    \/ Done(1)

VoidSpec == Init /\ [][VoidNext]_vars

\* the running call is a create of AccountingService that has returned
CreateReturned(p) == pc[p] = "done" /\ IsCreate(args[p])

----------------------------------------------------------------------------
(* Claims *)

\* C1: for every create of AccountingService that returned success, the entry
\* lines stored under the returned number have Debit and Credit sums that
\* differ by less than 0.01, and the Debit sum differs from the header's
\* total_amount by less than 0.01.
C1_StoredLinesBalance ==
    \A i \in 1 .. Len(created) :
        created[i][2][1] = "1" =>
            LET n == created[i][2]
                debits  == SumSide(Under(lcd, n), "D")
                credits == SumSide(Under(lcd, n), "C")
                header  == ledger[GetByNumber(n, FALSE)]
            IN  /\ Abs(debits - credits) < Tolerance
                /\ Abs(debits - header.total_amount) < Tolerance

\* C2: a create of AccountingService that returned failure has committed no
\* header, no entry line and no subsidiary line.
C2_FailureLeavesNothing ==
    \A p \in Procs :
        (CreateReturned(p) /\ ~result[p].ok) => wrote[p] = {}

\* C3: while a create of AccountingService is running, whoever reads the
\* tables finds under its number either no header of that call, or the header
\* with all the entry lines and all the subsidiary lines of the call.
C3_NoIntermediateState ==
    \A p \in Procs :
        (IsCreate(args[p]) /\ pc[p] \notin {"idle", "done"} /\ "header" \in wrote[p]) =>
            /\ Under(lcd, num[p]) = EntriesOf(args[p], num[p])
            /\ Under(subcodes, num[p]) = SubEntries(args[p], num[p])

\* C4: no two headers carry the same number, and no two creates that returned
\* success returned the same number, however the callers interleave.
C4_NumbersUnique ==
    /\ \A i, j \in 1 .. Len(ledger) :
           i # j => ledger[i].number # ledger[j].number
    /\ \A i, j \in 1 .. Len(created) :
           i # j => created[i][2] # created[j][2]

\* C4 witness: two voucher payable calls generated the same number; one
\* returned success and the other failed on its header.
C4_Witness ==
    \E p, q \in Procs :
        /\ p # q
        /\ args[p].op = "cvp" /\ args[q].op = "cvp"
        /\ pc[p] = "done" /\ pc[q] = "done"
        /\ num[p] = num[q]
        /\ result[p].ok
        /\ result[q].msg = "header_failed"

\* the creates of AccountingService of one type and year that returned
\* success, in the order they returned
RECURSIVE CreatedOf(_, _, _)
CreatedOf(hist, type, year) ==
    IF hist = <<>> THEN <<>>
    ELSE (IF Head(hist)[1] = type /\ Head(hist)[2][1] = "1" /\ Head(hist)[2][3] = year
          THEN <<Head(hist)[2]>> ELSE <<>>)
         \o CreatedOf(Tail(hist), type, year)

\* C5: in a history of calls made one after the other, the creates of one
\* type and year that returned success carry the sequences 1, 2, 3, ... in
\* the order they were made.
C5_SequencesFromOne ==
    \A type \in {"VP", "CV"}, year \in Years :
        LET ns == CreatedOf(created, type, year)
        IN  \A i \in 1 .. Len(ns) : ns[i][2] = i

\* C6: a create that finds no header of its own type for the year never fails
\* because its number is taken: headers of the other type do not stand in
\* its way.
C6_KindsIndependent ==
    \A p \in Procs :
        ( /\ CreateReturned(p)
          /\ result[p].msg = "header_failed"
          /\ ~\E i \in 1 .. Len(ledger) :
                 /\ ledger[i].type = TypeOf(args[p].op)
                 /\ ledger[i].number[3] = YearOf(args[p].date) )
        => ~NumberTaken(num[p])

\* the call that returned is a check voucher call naming a linked number
LinkedReturned(p) ==
    /\ pc[p] = "done"
    /\ args[p].op \in {"ccv", "vs_ccv"}
    /\ args[p].vp_number # NoNumber

\* C7: after a check voucher call naming an existing voucher payable returned
\* success, that voucher payable is no longer active: it is paid (or was
\* void already).
C7_LinkedBecomesPaid ==
    \A p \in Procs :
        (LinkedReturned(p) /\ result[p].ok) =>
            LET id == GetByNumber(args[p].vp_number, FALSE)
            IN  (id # 0 /\ ledger[id].type = "VP") => ledger[id].status # "active"

\* C8: a create_check_voucher call of AccountingService naming a linked
\* number that no header carries, or that a header not of type VP carries, or
\* that a void header carries, returns failure and commits nothing.
C8_BadLinkRejected ==
    \A p \in Procs :
        LET id == GetByNumber(args[p].vp_number, FALSE)
        IN  ( /\ LinkedReturned(p)
              /\ args[p].op = "ccv"
              /\ \/ id = 0
                 \/ ledger[id].type # "VP"
                 \/ ledger[id].status = "void" )
            => (~result[p].ok /\ wrote[p] = {})

\* the supplied lines are out of balance as the claim words it: the Debit and
\* Credit sums differ by 0.01 or more, or neither is within 0.01 of the total
OutOfBalance(a) ==
    LET d == SumSide(a.lines, "D")
        c == SumSide(a.lines, "C")
    IN  \/ Abs(d - c) >= Tolerance
        \/ Abs(d - a.total_amount) >= Tolerance /\ Abs(c - a.total_amount) >= Tolerance

\* C9: a create given lines that are out of balance returns the unbalanced
\* failure and commits nothing (said of the calls in which the payee and the
\* linked number were found, which the methods look up first, and in which no
\* database operation failed).
C9_UnbalancedRejected ==
    \A p \in Procs :
        ( /\ CreateReturned(p)
          /\ args[p].lines # <<>>
          /\ OutOfBalance(args[p])
          /\ result[p].msg \in {"unbalanced", "created"} )
        => (result[p].msg = "unbalanced" /\ wrote[p] = {})

\* C10: a create whose payee_code is not the code of an active account
\* returns the payee-not-found failure and commits nothing.
C10_PayeeMustBeActive ==
    \A p \in Procs :
        (CreateReturned(p) /\ ~Active(args[p].payee_code)) =>
            (result[p].msg = "payee_not_found" /\ wrote[p] = {})

\* C10 witness: with headers already stored, a create naming a deactivated
\* account was refused.
C10_Witness ==
    \E p \in Procs :
        /\ CreateReturned(p)
        /\ Registered(args[p].payee_code) /\ ~Active(args[p].payee_code)
        /\ result[p].msg = "payee_not_found"
        /\ ledger # <<>>

C12_VoidFrame ==
    [][\A p \in Procs :
        ( \/ pc[p] = "idle" /\ pc'[p] # "idle" /\ args'[p].op = "void"
          \/ pc[p] # "idle" /\ pc'[p] # pc[p] /\ args[p].op = "void" )
        => /\ lcd' = lcd
           /\ subcodes' = subcodes
           /\ Len(ledger') = Len(ledger)
           /\ \A i \in 1 .. Len(ledger) :
                  \/ ledger'[i] = ledger[i]
                  \/ /\ pc[p] = "void" /\ i = vid[p]
                     /\ ledger[i].number = args[p].number
                     /\ ledger'[i] = [ledger[i] EXCEPT !.status = "void"]
    ]_vars

\* C12 witness: a void returned success with two headers and their entry
\* lines in the store, the other header still active.
C12_Witness ==
    \E p \in Procs :
        /\ pc[p] = "done" /\ args[p].op = "void" /\ result[p].ok
        /\ Len(ledger) = 2
        /\ Len(lcd) >= 4
        /\ \E i, j \in 1 .. Len(ledger) :
               /\ ledger[i].number = args[p].number /\ ledger[i].status = "void"
               /\ ledger[j].status = "active"

\* C13: a header's status only ever changes from active to paid or from
\* active to void: a paid header and a void header keep their status.
C13_StatusOnlyLeavesActive ==
    [][\A i \in 1 .. Len(ledger) :
        ledger'[i].status # ledger[i].status =>
            (ledger[i].status = "active" /\ ledger'[i].status \in {"paid", "void"})
    ]_vars

\* C14: when the read of the highest sequence failed inside a create, the
\* call was handed no number of sequence 1 while headers of its type and year
\* exist (headers written before the call: it has inserted none itself).
C14_NoFallbackToOne ==
    \A p \in Procs :
        ( /\ IsCreate(args[p])
          /\ pc[p] \notin {"idle", "gen"}
          /\ "generate_number" \in faults[p]
          /\ "header" \notin wrote[p]
          /\ \E i \in 1 .. Len(ledger) :
                 /\ ledger[i].type = TypeOf(args[p].op)
                 /\ ledger[i].number[1] = "1"
                 /\ ledger[i].number[3] = YearOf(args[p].date) )
        => num[p] # FormatNumber(1, YearOf(args[p].date))

\* C15: a create or void whose audit write failed still returns success (a
\* create with its number), and what it committed is in the store: the header
\* with its entry lines and subsidiary lines, or the void status.
C15_AuditFailureTolerated ==
    \A p \in Procs :
        (pc[p] = "done" /\ "log_action" \in faults[p]) =>
            /\ result[p].ok
            /\ IsCreate(args[p]) =>
                   /\ result[p].number = num[p]
                   /\ GetByNumber(num[p], FALSE) # 0
                   /\ Under(lcd, num[p]) = EntriesOf(args[p], num[p])
                   /\ Under(subcodes, num[p]) = SubEntries(args[p], num[p])
            /\ args[p].op = "void" => ledger[vid[p]].status = "void"

\* C15 witness: a create with subsidiary lines and a void both ended with a
\* failed audit write.
C15_Witness ==
    \E p, q \in Procs :
        /\ pc[p] = "done" /\ IsCreate(args[p]) /\ args[p].subs # <<>>
        /\ "log_action" \in faults[p]
        /\ pc[q] = "done" /\ args[q].op = "void"
        /\ "log_action" \in faults[q]

\* C16: once a create of AccountingService has returned success,
\* get_transaction of the returned number answers the header of the call, the
\* entry lines and the subsidiary lines written for it and no others, and a
\* balance check whose debit and credit totals are the sums of those lines.
C16_ReadAfterWrite ==
    \A p \in Procs :
        (CreateReturned(p) /\ result[p].ok) =>
            LET t == GetTransaction(result[p].number, {})
                written == EntriesOf(args[p], num[p])
                key(rows) == [i \in 1 .. Len(rows) |->
                                 SideRank(rows[i].acct_type) + CodeRank(rows[i].acct_code)]
            IN  /\ t.found
                /\ t.ledger = HeaderRow(args[p], num[p])
                /\ t.credit_debit_entries = Ordered(written, key(written))
                /\ t.subsidiary_entries = SubEntries(args[p], num[p])
                /\ t.balance_check.total_debits = SumSide(written, "D")
                /\ t.balance_check.total_credits = SumSide(written, "C")

\* C16 witness: the second transaction of the store was created with
\* subsidiary lines and has just returned.
C16_Witness ==
    \E p \in Procs :
        /\ CreateReturned(p) /\ result[p].ok
        /\ args[p].subs # <<>>
        /\ Len(ledger) = 2 /\ Len(lcd) >= 4
        /\ GetTransaction(result[p].number, {}).credit_debit_entries # <<>>

\* C17: whenever no call is running, get_trial_balance reports balanced for
\* every as_of_date and for as_of_date omitted.
C17_TrialBalanceBalanced ==
    (\A p \in Procs : pc[p] = "idle") =>
        \A as_of_date \in Dates \cup {NoDate} :
            GetTrialBalance(as_of_date, FALSE).totals.balanced

\* C18: at every point of an interleaving of create calls, get_trial_balance
\* reports balanced.
C18_TrialBalanceAmidCreates ==
    GetTrialBalance(NoDate, FALSE).totals.balanced

\* C19: the trial balance has at most one row per account code, and the row
\* of a code totals all the Debit and all the Credit lines of that code dated
\* on or before as_of_date (all its lines when as_of_date is omitted).
C19_OneRowPerAccount ==
    \A as_of_date \in Dates \cup {NoDate} :
        LET tb == LcdGetTrialBalance(as_of_date, FALSE)
            of_code(c) == SelectSeq(lcd, LAMBDA r :
                              /\ r.acct_code = c
                              /\ as_of_date = NoDate \/ DateLeq(r.date, as_of_date))
        IN  /\ \A i, j \in 1 .. Len(tb) : i # j => tb[i].acct_code # tb[j].acct_code
            /\ \A i \in 1 .. Len(tb) :
                   /\ tb[i].total_debits = SumSide(of_code(tb[i].acct_code), "D")
                   /\ tb[i].total_credits = SumSide(of_code(tb[i].acct_code), "C")

\* C20: get_account_ledger returns the entries of the account oldest first,
\* and the running_balance of each entry is the sum, over that entry and the
\* entries returned before it, of +amount for Debit and -amount for Credit.
C20_LedgerOldestFirst ==
    \A acct_code \in AcctCodes : \A start_date, end_date \in Dates \cup {NoDate} :
        LET r == GetAccountLedger(acct_code, start_date, end_date, {})
        IN  ~r.error =>
                LET t == r.transactions
                IN  \A i \in 1 .. Len(t) :
                        /\ \A j \in i + 1 .. Len(t) : DateLeq(t[i].date, t[j].date)
                        /\ t[i].running_balance = RunningBalance(t, i)

\* C21: for an account that is deactivated and has entry lines under stored
\* headers, get_account_ledger returns the account and those lines, not the
\* account-not-found error.
C21_DeactivatedKeepsResolving ==
    \A acct_code \in AcctCodes :
        LET lines == GetByAccount(acct_code, NoDate, NoDate, FALSE)
            r == GetAccountLedger(acct_code, NoDate, NoDate, {})
        IN  (Registered(acct_code) /\ ~Active(acct_code) /\ lines # <<>>) =>
                (~r.error /\ Len(r.transactions) = Len(lines))

\* C22: an account create naming a code that some account, active or
\* deactivated, already holds fails and leaves the registry as it was; so no
\* two accounts ever share a code.
C22_CodeNeverReused ==
    [][ /\ \A p \in Procs :
              ( /\ pc[p] = "idle" /\ pc'[p] = "done"
                /\ args'[p].op = "acct_create"
                /\ Registered(args'[p].acct_code) )
              => (~result'[p].ok /\ acct' = acct)
        /\ \A i, j \in 1 .. Len(acct') :
              acct'[i].acct_code = acct'[j].acct_code => i = j ]_vars

\* C22 witness: a create naming the code of a deactivated account was refused.
C22_Witness ==
    \E p \in Procs :
        /\ pc[p] = "done" /\ args[p].op = "acct_create"
        /\ Registered(args[p].acct_code) /\ ~Active(args[p].acct_code)
        /\ ~result[p].ok /\ "acct_create" \notin faults[p]

\* C23: no create or void call ends by raising; each ends with a result
\* tuple, and for a create the returned number is present exactly when the
\* success flag is true, in which case a header carries that number.
C23_StructuredResult ==
    \A p \in Procs :
        /\ pc[p] # "raised"
        /\ (pc[p] = "done" /\ args[p].op \in {"cvp", "ccv", "void"}) =>
              /\ result[p].msg # "none"
              /\ IsCreate(args[p]) =>
                    /\ (result[p].number # NoNumber) <=> result[p].ok
                    /\ result[p].ok =>
                          \E i \in 1 .. Len(ledger) : ledger[i].number = result[p].number

\* C23 witness: the exception raised while a create was building its
\* subsidiary rows was returned as a failure without a number.
C23_Witness ==
    \E p \in Procs :
        /\ pc[p] = "done" /\ IsCreate(args[p])
        /\ ~SubsWellFormed(args[p])
        /\ result[p] = [ok |-> FALSE, msg |-> "error", number |-> NoNumber]

\* C24: every stored entry line has an amount above zero and the side D or C.
C24_LinesPositive ==
    \A i \in 1 .. Len(lcd) : lcd[i].amount > 0 /\ lcd[i].acct_type \in {"D", "C"}

\* C25: of two void_transaction calls on the same number that run at the same
\* time, at most one returns success.
C25_OneVoidWins ==
    \A p, q \in Procs :
        ( /\ p # q
          /\ pc[p] = "done" /\ pc[q] = "done"
          /\ args[p].op = "void" /\ args[q].op = "void"
          /\ args[p].number = args[q].number )
        => ~(result[p].ok /\ result[q].ok)

\* C26: for every header and account code, validate_subsidiary_total reports
\* balanced exactly when the sum of the subsidiary amounts filed under the
\* number and the code is less than 0.01 away from the sum of the entry-line
\* amounts filed under them.
C26_SubsidiaryTotalReported ==
    \A h \in 1 .. Len(ledger) : \A acct_code \in AcctCodes :
        LET v == ValidateSubsidiaryTotal(ledger[h].number, acct_code, {})
            here(rows) == SelectSeq(rows, LAMBDA r :
                              r.number = ledger[h].number /\ r.acct_code = acct_code)
        IN  v.balanced <=>
                Abs(SumAmounts(here(subcodes)) - SumAmounts(here(lcd))) < Tolerance

\* C27: of two creates running at the same time with the same generated
\* number at most one stores the header; a create that did not store the
\* header stores no entry line and no subsidiary line and returns failure;
\* and the lines filed under the number are those of the create that stored
\* the header.
C27_LoserWritesNothing ==
    /\ \A p, q \in Procs :
          (p # q /\ IsCreate(args[p]) /\ IsCreate(args[q])
                 /\ num[p] # NoNumber /\ num[p] = num[q])
          => /\ ~("header" \in wrote[p] /\ "header" \in wrote[q])
             /\ Cardinality({i \in 1 .. Len(ledger) : ledger[i].number = num[p]}) <= 1
    /\ \A p \in Procs :
          (IsCreate(args[p]) /\ num[p] # NoNumber) =>
             IF "header" \in wrote[p]
             THEN /\ Under(lcd, num[p]) \in {<<>>, EntriesOf(args[p], num[p])}
                  /\ Under(subcodes, num[p]) \in {<<>>, SubEntries(args[p], num[p])}
             ELSE /\ wrote[p] = {}
                  /\ pc[p] = "done" => ~result[p].ok

\* C27 witness: two creates generated the same number; one stored the header
\* and its lines, the other was refused at its header and wrote nothing.
C27_Witness ==
    \E p, q \in Procs :
        /\ p # q /\ IsCreate(args[p]) /\ IsCreate(args[q])
        /\ num[p] # NoNumber /\ num[p] = num[q]
        /\ {"header", "lines"} \subseteq wrote[p]
        /\ Under(lcd, num[p]) = EntriesOf(args[p], num[p])
        /\ EntriesOf(args[q], num[q]) # EntriesOf(args[p], num[p])
        /\ pc[q] = "done" /\ result[q].msg = "header_failed" /\ wrote[q] = {}
        /\ "create" \notin faults[q]

\* C28: as long as no header and no entry line has been added since a caller
\* read the reports, whatever voids have run since, get_trial_balance returns
\* what it returned then (rows, totals and balanced flag, for every
\* as_of_date) and get_account_ledger returns the same balance for every
\* account.
C28_VoidKeepsAggregates ==
    ( /\ report.taken
      /\ report.accounts = acct
      /\ report.headers = Len(ledger) /\ report.lines = Len(lcd) )
    => /\ \A d \in Dates \cup {NoDate} :
              GetTrialBalance(d, FALSE) = report.trial_balance[d]
       /\ \A x \in AcctCodes \X (Dates \cup {NoDate}) :
              LET before == report.account_ledger[x]
                  after  == GetAccountLedger(x[1], NoDate, x[2], {})
              IN  /\ after.error = before.error
                  /\ ~before.error => after.balance = before.balance

\* C28 witness: a transaction with entry lines on account 5000 was voided
\* after the reports were read, and no header or line was added since.
C28_Witness ==
    \E p \in Procs : \E h \in 1 .. Len(ledger) :
        /\ report.taken /\ report.headers = Len(ledger) /\ report.lines = Len(lcd)
        /\ pc[p] = "done" /\ args[p].op = "void" /\ result[p].ok
        /\ ledger[h].number = args[p].number
        /\ ledger[h].status = "void" /\ h \notin report.voided
        /\ Under(lcd, ledger[h].number) # <<>>
        /\ report.account_ledger[<<"5000", NoDate>>].balance.total_debits > 0

\* the failures a create returns from its validation
Rejections == {"payee_not_found", "vp_not_found", "not_a_vp", "unbalanced"}

\* C29: a create that returns one of the validation failures returns it
\* before its header is written, and no step of a create up to there changes
\* the number generate_number hands out for any type and year.
C29_RejectedConsumesNoNumber ==
    [][ \A p \in Procs :
          /\ (IsCreate(args'[p]) /\ pc'[p] = "done" /\ pc[p] # "done"
                /\ result'[p].msg \in Rejections)
             => pc[p] \in {"idle", "gen", "link"}
          /\ (IsCreate(args'[p]) /\ pc[p] \in {"idle", "gen", "link"} /\ pc'[p] # pc[p])
             => \A type \in {"VP", "CV"} : \A year \in Years :
                    GenerateNumber(type, year, FALSE)' = GenerateNumber(type, year, FALSE)
      ]_vars

\* C29 witness: with a voucher payable of 2025 stored, a create was refused
\* for its unbalanced lines after its number had been generated, and nothing
\* of it was written.
C29_Witness ==
    \E p \in Procs :
        /\ pc[p] = "done" /\ IsCreate(args[p])
        /\ result[p].msg = "unbalanced"
        /\ num[p] # NoNumber /\ wrote[p] = {}
        /\ ledger # <<>>
        /\ \A i \in 1 .. Len(ledger) : ledger[i].number # num[p]

\* C30: for every number, a header's or one no header carries,
\* validate_entry_balance reports balanced exactly when the Debit sum and the
\* Credit sum of the entry lines stored under the number are less than 0.01
\* apart; for a number without entry lines it reports balanced with both
\* totals 0, and get_transaction shows that answer for a header without lines.
C30_BalanceCheckReported ==
    /\ \A number \in Numbers \cup {ledger[h].number : h \in 1 .. Len(ledger)} :
          LET v == ValidateEntryBalance(number, FALSE)
              stored == Under(lcd, number)
          IN  /\ v.balanced <=>
                    Abs(SumSide(stored, "D") - SumSide(stored, "C")) < Tolerance
              /\ stored = <<>> =>
                    v.balanced /\ v.total_debits = 0 /\ v.total_credits = 0
    /\ \A h \in 1 .. Len(ledger) :
          Under(lcd, ledger[h].number) = <<>>
             => GetTransaction(ledger[h].number, {}).balance_check.balanced

====
